---- MODULE Spec2Model ----
(***************************************************************************)
(* Producer (ingestion) and Consumer (processing) Lambda functions sharing *)
(* one EFS namespace.  Every invocation is a separate process; the only    *)
(* shared state is the filesystem (dirs, files) and the objects the        *)
(* functions put to the bucket (s3_objects).  Strings are Python strings,  *)
(* paths are POSIX path strings, file contents are byte sequences.         *)
(***************************************************************************)
EXTENDS Integers, Sequences, FiniteSets, TLC

VARIABLES dirs, files, prod, cons, faults, s3_objects

vars == <<dirs, files, prod, cons, faults, s3_objects>>

(***************************************************************************)
(* Bounds of the model.                                                    *)
(***************************************************************************)
NumProducers == 2
NumReaders == 1
MaxFaults == 1
NumRequests == 2

Producers == 1..NumProducers
Readers == 1..NumReaders
Requests == 1..NumRequests

(***************************************************************************)
(* Program constants.  max_size is 1 GiB in the source; the model scales   *)
(* it to a length that byte sequences of the model can exceed.             *)
(***************************************************************************)
max_size == 2
EFS_MOUNT_PATH == "/mnt/efs"

(***************************************************************************)
(* Inputs.  Keys are the s3 keys and inline filenames of ingestion         *)
(* requests: one without a category prefix, one with an empty filename     *)
(* part after the category prefix.                                         *)
(***************************************************************************)
Keys == {"a", "models/"}
\* S3_BUCKET_NAME in the environment of a function, "" when it is unset
Buckets == {"", "bucket"}

\* keys in every form the path derivation tells apart: no prefix, a known
\* prefix, another prefix, the prefix twice, a directory or an absolute path
\* after the prefix
PathKeys ==
    {"a", "models/a", "inputs/a", "x/a", "models/models/a", "models/a/b", "models//a"}

PathPayloads == {<<1>>, <<3>>}

Models == {"a"}
FileIds == {"a"}

Oversize == [k \in 1..(max_size + 1) |-> 7]
Payloads == {<<1, 2>>, <<3>>, Oversize}
Sizes == {Len(p) : p \in Payloads}

(***************************************************************************)
(* Python string and os.path helpers.                                      *)
(***************************************************************************)
startswith(s, p) == Len(s) >= Len(p) /\ SubSeq(s, 1, Len(p)) = p

endswith(s, p) == Len(s) >= Len(p) /\ SubSeq(s, Len(s) - Len(p) + 1, Len(s)) = p

\* s.replace(p, '', 1) for an s that starts with p
strip_prefix(s, p) == SubSeq(s, Len(p) + 1, Len(s))

RECURSIVE rfind_slash(_, _)
rfind_slash(s, i) ==
    IF i = 0 THEN 0
    ELSE IF SubSeq(s, i, i) = "/" THEN i
    ELSE rfind_slash(s, i - 1)

basename(s) == SubSeq(s, rfind_slash(s, Len(s)) + 1, Len(s))

dirname(s) ==
    LET i == rfind_slash(s, Len(s))
    IN  IF i = 0 THEN "" ELSE IF i = 1 THEN "/" ELSE SubSeq(s, 1, i - 1)

path_join(a, b) ==
    IF startswith(b, "/") THEN b
    ELSE IF a = "" \/ endswith(a, "/") THEN a \o b
    ELSE a \o "/" \o b

(***************************************************************************)
(* Target path derivation of write_to_efs_atomic.                          *)
(***************************************************************************)
target_dir(s3_key) ==
    IF startswith(s3_key, "models/") THEN path_join(EFS_MOUNT_PATH, "models")
    ELSE IF startswith(s3_key, "inputs/") THEN path_join(EFS_MOUNT_PATH, "inputs")
    ELSE path_join(EFS_MOUNT_PATH, "models")

filename(s3_key) ==
    IF startswith(s3_key, "models/") THEN strip_prefix(s3_key, "models/")
    ELSE IF startswith(s3_key, "inputs/") THEN strip_prefix(s3_key, "inputs/")
    ELSE basename(s3_key)

final_path(s3_key) == path_join(target_dir(s3_key), filename(s3_key))

\* uuid.uuid5(NAMESPACE_DNS, name): a version-5 identifier, a function of name
uuid5(name) == "5-" \o name

\* a plausible slip: the identifier is not drawn afresh per invocation
uuid4_fixed(i) == "4-0"

\* uuid.uuid4(): a version-4 identifier from a random draw; the draw of
\* invocation i is named after i, so draws of distinct invocations differ
uuid4(i) == "4-" \o ToString(i)

\* a plausible slip: the bytes are written straight to the target path
temp_path_in_place(s3_key, file_id) == final_path(s3_key)

\* a plausible slip: the temporary file is named after the key
temp_path_by_key(s3_key, file_id) ==
    path_join(target_dir(s3_key), ".tmp-" \o basename(s3_key))

temp_path(s3_key, file_id) == path_join(target_dir(s3_key), ".tmp-" \o file_id)

(***************************************************************************)
(* The shared filesystem: dirs is the set of directories, files maps the   *)
(* path of every regular file to its bytes.  A path with a trailing slash  *)
(* names a directory.                                                      *)
(***************************************************************************)
norm(p) == IF Len(p) > 1 /\ endswith(p, "/") THEN SubSeq(p, 1, Len(p) - 1) ELSE p

isdir(p) == norm(p) \in dirs

isfile(p) == p \in DOMAIN files

exists(p) == isfile(p) \/ isdir(p)

CategoryDirs ==
    { path_join(EFS_MOUNT_PATH, "models"),
      path_join(EFS_MOUNT_PATH, "inputs"),
      path_join(EFS_MOUNT_PATH, "outputs") }

\* os.rename(src, dst) of a regular file succeeds iff dst is not a directory
\* name and the directory that is to hold dst exists
can_rename(src, dst) ==
    /\ isfile(src)
    /\ ~ endswith(dst, "/")
    /\ ~ isdir(dst)
    /\ isdir(dirname(dst))

put(f, p, data) == [q \in DOMAIN f \cup {p} |-> IF q = p THEN data ELSE f[q]]

del(f, p) == [q \in DOMAIN f \ {p} |-> f[q]]

(***************************************************************************)
(* Responses.                                                              *)
(***************************************************************************)
NoResponse ==
    [statusCode |-> 0, error |-> "", fileId |-> "", efsPath |-> "",
     s3Key |-> "", sizeBytes |-> 0, requestId |-> ""]

create_success_response(file_id, efs_path, s3_key, size_bytes) ==
    [statusCode |-> 200, error |-> "", fileId |-> file_id, efsPath |-> efs_path,
     s3Key |-> s3_key, sizeBytes |-> size_bytes, requestId |-> ""]

create_error_response(status_code, error_code, request_id) ==
    [statusCode |-> status_code, error |-> error_code, fileId |-> "", efsPath |-> "",
     s3Key |-> "", sizeBytes |-> 0, requestId |-> request_id]

aws_request_id(i) == "req-" \o ToString(i)

(***************************************************************************)
(* Producer invocations.  Everything an invocation does before it looks at *)
(* the target path touches no state another invocation reads (ensuring     *)
(* directories is idempotent, the download is external), so it is one step *)
(* with the idempotency check and the creation of the temporary file.      *)
(* The fields existed and remove_failed are history: whether the target    *)
(* path existed when the invocation made its idempotency check, whether    *)
(* the os.remove of its cleanup raised.                                    *)
(***************************************************************************)
IdleProducer ==
    [pc |-> "idle", key |-> "", file_data |-> <<>>, file_size |-> 0,
     file_id |-> "", written |-> 0, response |-> NoResponse, existed |-> FALSE,
     remove_failed |-> FALSE]

NoResult ==
    [fileId |-> "", fileSize |-> 0, checksum |-> <<>>, uniqueBytes |-> 0,
     mostCommonByte |-> 0, processingDurationMs |-> 0, status |-> ""]

\* result is the Result Record of the invocation, which the body of its 200
\* response carries; enable_s3_archive and s3_bucket_name are the environment
\* of the function (ENABLE_S3_ARCHIVE and S3_BUCKET_NAME unset by default) and
\* uploaded is history: put_object returned
IdleReader ==
    [pc |-> "idle", model |-> "", fileId |-> "", model_data |-> <<>>,
     response |-> NoResponse, result |-> NoResult, enable_s3_archive |-> FALSE,
     s3_bucket_name |-> "", uploaded |-> FALSE]

Init ==
    /\ dirs = {"/", "/mnt", EFS_MOUNT_PATH}
    /\ files = <<>>
    /\ prod = [i \in Producers |-> IdleProducer]
    /\ cons = [r \in Readers |-> IdleReader]
    /\ faults = 0
    /\ s3_objects = <<>>

\* invocations are numbered in the order in which they start
may_start(i) == prod[i].pc = "idle" /\ \A j \in 1..(i - 1) : prod[j].pc # "idle"

\* ensure_directories: os.makedirs(d, exist_ok=True) for the first k directories
EnsureOrder ==
    << path_join(EFS_MOUNT_PATH, "models"),
       path_join(EFS_MOUNT_PATH, "inputs"),
       path_join(EFS_MOUNT_PATH, "outputs") >>

ensure_directories(k) == dirs \cup { EnsureOrder[j] : j \in 1..k }

request(i, key, data) ==
    [prod[i] EXCEPT !.key = key, !.file_data = data,
                    !.file_size = Len(data)]

finish(p, r) == [p EXCEPT !.pc = "done", !.written = 0, !.response = r]

\* a plausible slip: no idempotency check, every call writes and renames
write_to_efs_unchecked(i, p, d) ==
    LET fp == final_path(p.key)
    IN  [p EXCEPT !.pc = "write", !.file_id = uuid4(i),
                  !.existed = (fp \in DOMAIN files \/ norm(fp) \in d)]

\* a plausible slip: the replay's identifier is drawn afresh as well
write_to_efs_fresh_id(i, p, d) ==
    LET fp == final_path(p.key)
        q == [p EXCEPT !.existed = (fp \in DOMAIN files \/ norm(fp) \in d)]
    IN  IF fp \in DOMAIN files \/ norm(fp) \in d
        THEN finish([q EXCEPT !.file_id = uuid4(i)],
                    create_success_response(uuid4(i), fp, p.key, p.file_size))
        ELSE [q EXCEPT !.pc = "write", !.file_id = uuid4(i)]

\* write_to_efs_atomic up to open(temp_path, 'wb'), called by invocation i with
\* request p, in the filesystem (d, files): the invocation's next state
write_to_efs_atomic(i, p, d) ==
    LET fp == final_path(p.key)
        q == [p EXCEPT !.existed = (fp \in DOMAIN files \/ norm(fp) \in d)]
    IN  IF fp \in DOMAIN files \/ norm(fp) \in d
        THEN finish([q EXCEPT !.file_id = uuid5(fp)],
                    create_success_response(uuid5(fp), fp, p.key, p.file_size))
        ELSE [q EXCEPT !.pc = "write", !.file_id = uuid4(i)]

\* a plausible slip: the temporary file is opened before the idempotency check
open_temp_always(p) == put(files, temp_path(p.key, p.file_id), <<>>)

\* the files after that call: the temporary file is created empty
open_temp(p) ==
    IF p.pc = "write" THEN put(files, temp_path(p.key, p.file_id), <<>>) ELSE files

\* a plausible slip: the failure of ensure_directories is left to the
\* catch-all handler
InvokeMountFailedUncaught(i) ==
    /\ may_start(i)
    /\ faults < MaxFaults
    /\ faults' = faults + 1
    /\ \E k \in 0..2 :
         /\ dirs' = ensure_directories(k)
         /\ prod' = [prod EXCEPT ![i] =
                finish(@, create_error_response(500, "INTERNAL_ERROR", aws_request_id(i)))]
    /\ UNCHANGED <<files, cons, s3_objects>>

\* lambda_handler: ensure_directories raises
InvokeMountFailed(i) ==
    /\ may_start(i)
    /\ faults < MaxFaults
    /\ faults' = faults + 1
    /\ \E k \in 0..2 :
         /\ dirs' = ensure_directories(k)
         /\ prod' = [prod EXCEPT ![i] =
                finish(@, create_error_response(500, "MOUNT_FAILED", aws_request_id(i)))]
    /\ UNCHANGED <<files, cons, s3_objects>>

\* an injected fault counts against the budget of the run
fault(n) == faults + n <= MaxFaults /\ faults' = faults + n

\* a plausible slip: access denied is answered with the status of the
\* catch-all handler
download_error_flat(i, ingress, key) ==
    { [create_error_response(404, "S3_NOT_FOUND", aws_request_id(i)) EXCEPT !.s3Key = key],
      [create_error_response(500, "S3_ACCESS_DENIED", aws_request_id(i))
          EXCEPT !.s3Key = IF ingress = "s3" THEN key ELSE ""],
      create_error_response(500, "INTERNAL_ERROR", aws_request_id(i)) }

\* the outcomes of download_from_s3 in a handler: the object's bytes, or
\* NoSuchKey, ClientError(AccessDenied), any other exception
download_error(i, ingress, key) ==
    { [create_error_response(404, "S3_NOT_FOUND", aws_request_id(i)) EXCEPT !.s3Key = key],
      [create_error_response(403, "S3_ACCESS_DENIED", aws_request_id(i))
          EXCEPT !.s3Key = IF ingress = "s3" THEN key ELSE ""],
      create_error_response(500, "INTERNAL_ERROR", aws_request_id(i)) }

\* lambda_handler + handle_s3_event: notification {bucket, key, size}; the
\* object fetched is the object the notification is about
InvokeS3Event(i) ==
    /\ may_start(i)
    /\ dirs' = ensure_directories(3)
    /\ \E key \in Keys, size \in Sizes :
         IF size > max_size
         THEN /\ prod' = [prod EXCEPT ![i] =
                    finish(request(i, key, <<>>),
                           [create_error_response(413, "FILE_TOO_LARGE", "")
                               EXCEPT !.s3Key = key, !.sizeBytes = size])]
              /\ files' = files
              /\ fault(0)
         ELSE \/ \E r \in download_error(i, "s3", key) :
                   /\ prod' = [prod EXCEPT ![i] = finish(request(i, key, <<>>), r)]
                   /\ files' = files
                   /\ fault(1)
              \/ \E data \in {d \in Payloads : Len(d) = size} :
                   LET p == write_to_efs_atomic(i, request(i, key, data), dirs')
                   IN  /\ prod' = [prod EXCEPT ![i] = p]
                       /\ files' = open_temp(p)
                       /\ fault(0)
    /\ UNCHANGED <<cons, s3_objects>>

\* lambda_handler + handle_api_event: the body is not JSON, is empty or has
\* neither 'key' nor 'data'
InvokeApiInvalid(i) ==
    /\ may_start(i)
    /\ dirs' = ensure_directories(3)
    /\ \E body \in {"{", "", "{}", "{\"filename\": \"a\"}"} :
         prod' = [prod EXCEPT ![i] =
             finish(@, create_error_response(400, "INVALID_REQUEST", aws_request_id(i)))]
    /\ UNCHANGED <<files, cons, faults, s3_objects>>

\* lambda_handler + handle_api_event, body {"key": ""}: the empty string
\* names no object, the download fails
InvokeApiKeyEmpty(i) ==
    /\ may_start(i)
    /\ dirs' = ensure_directories(3)
    /\ \E r \in download_error(i, "key", "") :
         prod' = [prod EXCEPT ![i] = finish(request(i, "", <<>>), r)]
    /\ UNCHANGED <<files, cons, faults, s3_objects>>

\* lambda_handler + handle_api_event, body {"key": ...} when S3_BUCKET_NAME
\* is unset
InvokeApiUnconfigured(i) ==
    /\ may_start(i)
    /\ dirs' = ensure_directories(3)
    /\ \E key \in Keys \cup {""} :
         prod' = [prod EXCEPT ![i] =
             finish(request(i, key, <<>>),
                    create_error_response(500, "CONFIGURATION_ERROR", aws_request_id(i)))]
    /\ UNCHANGED <<files, cons, faults, s3_objects>>

\* lambda_handler + handle_api_event, body {"key": ...} with a key that is
\* not empty and S3_BUCKET_NAME set
InvokeApiKey(i) ==
    /\ may_start(i)
    /\ dirs' = ensure_directories(3)
    /\ \E key \in Keys :
         \/ \E r \in download_error(i, "key", key) :
              /\ prod' = [prod EXCEPT ![i] = finish(request(i, key, <<>>), r)]
              /\ files' = files
              /\ fault(1)
         \/ \E data \in Payloads :
              LET p == write_to_efs_atomic(i, request(i, key, data), dirs')
              IN  /\ prod' = [prod EXCEPT ![i] = p]
                  /\ files' = open_temp(p)
                  /\ fault(0)
    /\ UNCHANGED <<cons, s3_objects>>

\* the key of the harness for its request i: models/<fresh name>
test_model_key(i) == "models/test-model-" \o ToString(i)

\* lambda_handler + handle_api_event, body {"key": ..., "data": ...} as the
\* harness sends it, S3_BUCKET_NAME set: 'key' is looked at first, so the
\* object of that key is fetched from the bucket and 'data' is not read
InvokeApiKeyData(i) ==
    /\ may_start(i)
    /\ dirs' = ensure_directories(3)
    /\ \E data \in Payloads :
         LET key == test_model_key(i)
         IN  IF key \in DOMAIN s3_objects
             THEN LET p == write_to_efs_atomic(i, request(i, key, s3_objects[key]), dirs')
                  IN  /\ prod' = [prod EXCEPT ![i] = p]
                      /\ files' = open_temp(p)
             ELSE /\ prod' = [prod EXCEPT ![i] =
                        finish(request(i, key, <<>>),
                               [create_error_response(404, "S3_NOT_FOUND", aws_request_id(i))
                                   EXCEPT !.s3Key = key])]
                  /\ files' = files
    /\ UNCHANGED <<cons, faults, s3_objects>>

\* a plausible slip: the size is checked after the temporary file is opened
InvokeApiDataLateCheck(i) ==
    /\ may_start(i)
    /\ dirs' = ensure_directories(3)
    /\ \E fname \in Keys, data \in Payloads :
         IF Len(data) > max_size
         THEN /\ prod' = [prod EXCEPT ![i] =
                    finish(request(i, fname, data),
                           [create_error_response(413, "FILE_TOO_LARGE", aws_request_id(i))
                               EXCEPT !.sizeBytes = Len(data)])]
              /\ files' = put(files, temp_path(fname, uuid4(i)), <<>>)
         ELSE LET p == write_to_efs_atomic(i, request(i, fname, data), dirs')
              IN  /\ prod' = [prod EXCEPT ![i] = p]
                  /\ files' = open_temp(p)
    /\ UNCHANGED <<cons, faults, s3_objects>>

\* lambda_handler + handle_api_event, body {"data": ..., "filename": ...}
InvokeApiData(i) ==
    /\ may_start(i)
    /\ dirs' = ensure_directories(3)
    /\ \E fname \in Keys, data \in Payloads :
         IF Len(data) > max_size
         THEN /\ prod' = [prod EXCEPT ![i] =
                    finish(request(i, fname, data),
                           [create_error_response(413, "FILE_TOO_LARGE", aws_request_id(i))
                               EXCEPT !.sizeBytes = Len(data)])]
              /\ files' = files
         ELSE LET p == write_to_efs_atomic(i, request(i, fname, data), dirs')
              IN  /\ prod' = [prod EXCEPT ![i] = p]
                  /\ files' = open_temp(p)
    /\ UNCHANGED <<cons, faults, s3_objects>>

\* the same handler for the keys of the path derivation
InvokeApiDataKey(i) ==
    /\ may_start(i)
    /\ dirs' = ensure_directories(3)
    /\ \E fname \in PathKeys, data \in PathPayloads :
         LET p == write_to_efs_atomic(i, request(i, fname, data), dirs')
         IN  /\ prod' = [prod EXCEPT ![i] = p]
             /\ files' = open_temp(p)
    /\ UNCHANGED <<cons, faults, s3_objects>>

\* f.write(file_data), one byte reaching the temporary file at a time (a
\* write to a file that was unlinked meanwhile reaches no path)
WriteTemp(i) ==
    /\ prod[i].pc = "write"
    /\ prod[i].written < Len(prod[i].file_data)
    /\ LET tp == temp_path(prod[i].key, prod[i].file_id)
       IN  files' = IF isfile(tp)
                    THEN put(files, tp, Append(files[tp],
                                               prod[i].file_data[prod[i].written + 1]))
                    ELSE files
    /\ prod' = [prod EXCEPT ![i].written = @ + 1]
    /\ UNCHANGED <<dirs, cons, faults, s3_objects>>

\* a plausible slip: the payload is copied onto the target path and the
\* temporary file stays
RenameKeepsTemp(i) ==
    /\ prod[i].pc = "write"
    /\ prod[i].written = Len(prod[i].file_data)
    /\ LET tp == temp_path(prod[i].key, prod[i].file_id)
           fp == final_path(prod[i].key)
       IN  /\ can_rename(tp, fp)
           /\ files' = put(files, fp, files[tp])
           /\ prod' = [prod EXCEPT ![i] =
                  finish(@, create_success_response(prod[i].file_id, fp, prod[i].key,
                                                    prod[i].file_size))]
    /\ UNCHANGED <<dirs, cons, faults, s3_objects>>

\* os.rename(temp_path, final_path), return, create_success_response
Rename(i) ==
    /\ prod[i].pc = "write"
    /\ prod[i].written = Len(prod[i].file_data)
    /\ LET tp == temp_path(prod[i].key, prod[i].file_id)
           fp == final_path(prod[i].key)
       IN  /\ can_rename(tp, fp)
           /\ files' = del(put(files, fp, files[tp]), tp)
           /\ prod' = [prod EXCEPT ![i] =
                  finish(@, create_success_response(prod[i].file_id, fp, prod[i].key,
                                                    prod[i].file_size))]
    /\ UNCHANGED <<dirs, cons, faults, s3_objects>>

\* a plausible slip: the cleanup removes the target path
WriteFailsRemovesTarget(i) ==
    /\ prod[i].pc = "write"
    /\ fault(1)
    /\ files' = IF isfile(final_path(prod[i].key))
                THEN del(files, final_path(prod[i].key)) ELSE files
    /\ prod' = [prod EXCEPT ![i] =
           finish(@, create_error_response(500, "INTERNAL_ERROR", aws_request_id(i)))]
    /\ UNCHANGED <<dirs, cons, s3_objects>>

\* a plausible slip: the handler of the OSError does not clean up
WriteFailsKeepsTemp(i) ==
    /\ prod[i].pc = "write"
    /\ LET tp == temp_path(prod[i].key, prod[i].file_id)
           fp == final_path(prod[i].key)
           injected == IF prod[i].written = Len(prod[i].file_data) /\ ~ can_rename(tp, fp)
                       THEN 0 ELSE 1
       IN  files' = files /\ fault(injected)
    /\ prod' = [prod EXCEPT ![i] =
           finish(@, create_error_response(500, "INTERNAL_ERROR", aws_request_id(i)))]
    /\ UNCHANGED <<dirs, cons, s3_objects>>

\* open, write or rename raises OSError: the temporary file is removed if it
\* exists (a failing os.remove is ignored), the exception becomes
\* 500 INTERNAL_ERROR in lambda_handler
WriteFails(i) ==
    /\ prod[i].pc = "write"
    /\ LET tp == temp_path(prod[i].key, prod[i].file_id)
           fp == final_path(prod[i].key)
           injected == IF prod[i].written = Len(prod[i].file_data) /\ ~ can_rename(tp, fp)
                       THEN 0 ELSE 1
           r == create_error_response(500, "INTERNAL_ERROR", aws_request_id(i))
       IN  \/ /\ files' = (IF isfile(tp) THEN del(files, tp) ELSE files)
              /\ fault(injected)
              /\ prod' = [prod EXCEPT ![i] = finish(@, r)]
           \/ /\ isfile(tp)
              /\ files' = files
              /\ fault(injected)
              /\ prod' = [prod EXCEPT ![i] = finish([@ EXCEPT !.remove_failed = TRUE], r)]
    /\ UNCHANGED <<dirs, cons, s3_objects>>

(***************************************************************************)
(* Consumer invocations.  A reader is lambda_handler up to and including   *)
(* load_model_from_efs; a processing request is lambda_handler in full.    *)
(***************************************************************************)
model_path(model) == path_join(path_join(EFS_MOUNT_PATH, "models"), model)

output_path(file_id) ==
    path_join(path_join(EFS_MOUNT_PATH, "outputs"), file_id \o ".result")

reader_may_start(r) == cons[r].pc = "idle" /\ \A q \in 1..(r - 1) : cons[q].pc # "idle"

\* a plausible slip: the FileNotFoundError reaches the catch-all handler
load_model_uncaught(r, model, file_id) ==
    /\ ~ exists(model_path(model))
    /\ cons' = [cons EXCEPT ![r] =
           [@ EXCEPT !.pc = "done", !.model = model, !.fileId = file_id,
                     !.response = create_error_response(500, "INTERNAL_ERROR",
                                                        aws_request_id(NumProducers + r))]]

\* os.path.exists(model_path) is false: FileNotFoundError carrying the 404
\* response, which lambda_handler returns
load_model_absent(r, model, file_id) ==
    /\ ~ exists(model_path(model))
    /\ cons' = [cons EXCEPT ![r] =
           [@ EXCEPT !.pc = "done", !.model = model, !.fileId = file_id,
                     !.response = [create_error_response(404, "NOT_FOUND",
                                                         aws_request_id(NumProducers + r))
                                      EXCEPT !.fileId = file_id,
                                             !.efsPath = model_path(model)]]]

\* os.path.exists(model_path) is true
load_model_present(r, model, file_id) ==
    /\ exists(model_path(model))
    /\ cons' = [cons EXCEPT ![r] =
           [@ EXCEPT !.pc = "read", !.model = model, !.fileId = file_id]]

LoadModelNotFound(r) ==
    /\ reader_may_start(r)
    /\ \E model \in Models, file_id \in FileIds : load_model_absent(r, model, file_id)
    /\ UNCHANGED <<dirs, files, prod, faults, s3_objects>>

LoadModelCheck(r) ==
    /\ reader_may_start(r)
    /\ \E model \in Models, file_id \in FileIds : load_model_present(r, model, file_id)
    /\ UNCHANGED <<dirs, files, prod, faults, s3_objects>>

\* with open(model_path, 'rb') as f: model_data = f.read()
LoadModelRead(r) ==
    /\ cons[r].pc = "read"
    /\ isfile(model_path(cons[r].model))
    /\ cons' = [cons EXCEPT ![r] =
           [@ EXCEPT !.pc = "loaded", !.model_data = files[model_path(cons[r].model)]]]
    /\ UNCHANGED <<dirs, files, prod, faults, s3_objects>>

\* a plausible slip: the error of open reaches the handler's FileNotFoundError
\* clause and is answered like an absent artifact
LoadModelReadFailsNotFound(r) ==
    /\ cons[r].pc = "read"
    /\ IF isfile(model_path(cons[r].model)) THEN fault(1) ELSE fault(0)
    /\ cons' = [cons EXCEPT ![r] =
           [@ EXCEPT !.pc = "done",
                     !.response = [create_error_response(404, "NOT_FOUND",
                                                         aws_request_id(NumProducers + r))
                                      EXCEPT !.fileId = cons[r].fileId,
                                             !.efsPath = model_path(cons[r].model)]]]
    /\ UNCHANGED <<dirs, files, prod, s3_objects>>

\* open or read raises OSError: Exception, 500 INTERNAL_ERROR
LoadModelReadFails(r) ==
    /\ cons[r].pc = "read"
    /\ IF isfile(model_path(cons[r].model)) THEN fault(1) ELSE fault(0)
    /\ cons' = [cons EXCEPT ![r] =
           [@ EXCEPT !.pc = "done",
                     !.response = create_error_response(500, "INTERNAL_ERROR",
                                                        aws_request_id(NumProducers + r))]]
    /\ UNCHANGED <<dirs, files, prod, s3_objects>>

Next ==
    \/ \E i \in Producers : InvokeS3Event(i)
    \/ \E i \in Producers : InvokeApiKey(i)
    \/ \E i \in Producers : InvokeApiData(i)
    \/ \E i \in Producers : WriteTemp(i)
    \/ \E i \in Producers : Rename(i)
    \/ \E i \in Producers : WriteFails(i)
    \/ \E i \in Producers : InvokeMountFailed(i)
    \/ \E r \in Readers : LoadModelNotFound(r)
    \/ \E r \in Readers : LoadModelCheck(r)
    \/ \E r \in Readers : LoadModelRead(r)
    \/ \E r \in Readers : LoadModelReadFails(r)

Spec == Init /\ [][Next]_vars

(***************************************************************************)
(* The ingestion service alone, with every form of request.                *)
(***************************************************************************)
InitIngress ==
    /\ dirs = {"/", "/mnt", EFS_MOUNT_PATH}
    /\ files = <<>>
    /\ prod = [i \in Producers |-> IdleProducer]
    /\ cons = <<>>
    /\ faults = 0
    /\ s3_objects = <<>>

NextIngress ==
    \/ \E i \in Producers : InvokeS3Event(i)
    \/ \E i \in Producers : InvokeApiKey(i)
    \/ \E i \in Producers : InvokeApiData(i)
    \/ \E i \in Producers : InvokeApiInvalid(i)
    \/ \E i \in Producers : InvokeApiKeyEmpty(i)
    \/ \E i \in Producers : InvokeApiUnconfigured(i)
    \/ \E i \in Producers : WriteTemp(i)
    \/ \E i \in Producers : Rename(i)
    \/ \E i \in Producers : WriteFails(i)
    \/ \E i \in Producers : InvokeMountFailed(i)

SpecIngress == InitIngress /\ [][NextIngress]_vars

(***************************************************************************)
(* The ingestion requests of the harness, over a bucket that holds nothing *)
(* or an object under the key of one request.                              *)
(***************************************************************************)
InitHarness ==
    /\ dirs = {"/", "/mnt", EFS_MOUNT_PATH}
    /\ files = <<>>
    /\ prod = [i \in Producers |-> IdleProducer]
    /\ cons = <<>>
    /\ faults = 0
    /\ \/ s3_objects = <<>>
       \/ \E i \in Producers, data \in Payloads :
            s3_objects = put(<<>>, test_model_key(i), data)

NextHarness ==
    \/ \E i \in Producers : InvokeApiKeyData(i)
    \/ \E i \in Producers : WriteTemp(i)
    \/ \E i \in Producers : Rename(i)
    \/ \E i \in Producers : WriteFails(i)
    \/ \E i \in Producers : InvokeMountFailed(i)

SpecHarness == InitHarness /\ [][NextHarness]_vars

(***************************************************************************)
(* Inline ingestions of keys in every form.                                *)
(***************************************************************************)
NextKeys ==
    \/ \E i \in Producers : InvokeApiDataKey(i)
    \/ \E i \in Producers : WriteTemp(i)
    \/ \E i \in Producers : Rename(i)
    \/ \E i \in Producers : WriteFails(i)

SpecKeys == InitIngress /\ [][NextKeys]_vars

(***************************************************************************)
(* The same invocations over a namespace that may already hold an artifact *)
(* published by an invocation that is over.                                *)
(***************************************************************************)
InitReplay ==
    /\ \/ dirs = {"/", "/mnt", EFS_MOUNT_PATH} /\ files = <<>>
       \/ /\ dirs = {"/", "/mnt", EFS_MOUNT_PATH} \cup CategoryDirs
          /\ \E key \in Keys, data \in Payloads :
               /\ ~ endswith(final_path(key), "/")
               /\ Len(data) <= max_size
               /\ files = put(<<>>, final_path(key), data)
    /\ prod = [i \in Producers |-> IdleProducer]
    /\ cons = [r \in Readers |-> IdleReader]
    /\ faults = 0
    /\ s3_objects = <<>>

SpecReplay == InitReplay /\ [][Next]_vars

(***************************************************************************)
(* process_inference.  The digest is a value that identifies the bytes it  *)
(* was computed from; the timing field is an input of the call.  The       *)
(* sample is the first 1000 bytes in the source; the model scales it to a  *)
(* length that the artifacts of the model can exceed.                      *)
(***************************************************************************)
SampleSize == 2

\* the timing of a call in ms: a value of one digit and a value of two
Durations == {0, 10}

sample(model_data) ==
    SubSeq(model_data, 1,
           IF Len(model_data) < SampleSize THEN Len(model_data) ELSE SampleSize)

sha256(model_data) == <<"sha256", model_data>>

byte_counts(s, b) == Cardinality({ k \in 1..Len(s) : s[k] = b })

unique_bytes(s) == Cardinality({ s[k] : k \in 1..Len(s) })

\* a plausible slip: among the bytes of the highest count the largest value
\* is taken, as max over (count, byte) pairs would
most_common_byte_largest(s) ==
    IF s = <<>> THEN 0
    ELSE CHOOSE b \in { s[k] : k \in 1..Len(s) } :
             \A j \in 1..Len(s) :
                 \/ byte_counts(s, s[j]) < byte_counts(s, b)
                 \/ byte_counts(s, s[j]) = byte_counts(s, b) /\ s[j] <= b

\* max over the items of a dict in insertion order: the byte that reaches the
\* highest count and was met first
most_common_byte(s) ==
    IF s = <<>> THEN 0
    ELSE LET k == CHOOSE k \in 1..Len(s) :
                      /\ \A j \in 1..Len(s) : byte_counts(s, s[j]) <= byte_counts(s, s[k])
                      /\ \A j \in 1..(k - 1) : byte_counts(s, s[j]) < byte_counts(s, s[k])
         IN  s[k]

\* a plausible slip: the digest covers the timing of the call as well
process_inference_timed(model_data, file_id, ms) ==
    [fileId |-> file_id, fileSize |-> Len(model_data),
     checksum |-> sha256(Append(model_data, ms)),
     uniqueBytes |-> unique_bytes(sample(model_data)),
     mostCommonByte |-> most_common_byte(sample(model_data)),
     processingDurationMs |-> ms, status |-> "success"]

\* a plausible slip: the statistics are taken over the whole artifact
process_inference_unsampled(model_data, file_id, ms) ==
    [fileId |-> file_id, fileSize |-> Len(model_data), checksum |-> sha256(model_data),
     uniqueBytes |-> unique_bytes(model_data),
     mostCommonByte |-> most_common_byte(model_data),
     processingDurationMs |-> ms, status |-> "success"]

process_inference(model_data, file_id, ms) ==
    [fileId |-> file_id, fileSize |-> Len(model_data), checksum |-> sha256(model_data),
     uniqueBytes |-> unique_bytes(sample(model_data)),
     mostCommonByte |-> most_common_byte(sample(model_data)),
     processingDurationMs |-> ms, status |-> "success"]

(***************************************************************************)
(* Processing requests: lambda_handler of the consumer in full, next to    *)
(* inline ingestions.                                                      *)
(***************************************************************************)
\* the request bodies of the clients: an identifier that is a published key
\* with its own name or another label, and the identifier the first ingestion
\* returned with a fixed label
Bodies ==
    { [fileId |-> "a", model |-> "a"],
      [fileId |-> "a", model |-> "b"],
      [fileId |-> uuid4(1), model |-> "b"] }

\* the scenario has one ingestion, invocation 1, next to the processing requests
Ingests == {1}

RECURSIVE digits(_)
digits(n) == IF n < 10 THEN <<ToString(n)>> ELSE Append(digits(n \div 10), ToString(n % 10))

\* json.dump(result, f, indent=2): the text of the record in the order of its
\* fields; the fields before the timing are one item, the timing is one item
\* per digit, the status is the last item
json_dump(result) ==
    << [fileId |-> result.fileId, fileSize |-> result.fileSize,
        checksum |-> result.checksum, uniqueBytes |-> result.uniqueBytes,
        mostCommonByte |-> result.mostCommonByte] >>
    \o digits(result.processingDurationMs)
    \o << result.status >>

\* the content of a file after text is written at offset 0 of a descriptor
\* opened with 'w': what the file holds beyond the text stays
write_at_start(content, text) ==
    IF Len(content) > Len(text)
    THEN text \o SubSeq(content, Len(text) + 1, Len(content))
    ELSE text

archive_key(file_id) == "outputs/" \o file_id \o ".result"

\* create_success_response of the consumer; the result in its body is the
\* result of the invocation, an absent s3Key is ""
predict_success_response(file_id, efs_path, s3_key) ==
    [statusCode |-> 200, error |-> "", fileId |-> file_id, efsPath |-> efs_path,
     s3Key |-> s3_key, sizeBytes |-> 0, requestId |-> ""]

\* event['body'] of a request: json tells whether json.loads accepts the text
\* (an absent body is the text {}), keys are the fields of the object it
\* denotes.  The bodies of the clients and every kind of body the validation
\* rejects: no JSON, the empty object, a field missing, a field empty
PredictEvents ==
    { [json |-> FALSE, keys |-> {}, fileId |-> "", model |-> ""],
      [json |-> TRUE, keys |-> {}, fileId |-> "", model |-> ""],
      [json |-> TRUE, keys |-> {"model"}, fileId |-> "", model |-> "a"],
      [json |-> TRUE, keys |-> {"fileId"}, fileId |-> "a", model |-> ""],
      [json |-> TRUE, keys |-> {"fileId", "model"}, fileId |-> "", model |-> "a"],
      [json |-> TRUE, keys |-> {"fileId", "model"}, fileId |-> "a", model |-> ""] }
    \cup { [json |-> TRUE, keys |-> {"fileId", "model"},
            fileId |-> b.fileId, model |-> b.model] : b \in Bodies }

\* body.get(field): None, which is the empty string here, for a missing field
body_get(body, field) == IF field \in body.keys THEN body[field] ELSE ""

\* a plausible slip: the check of the model field is left out
invalid_request_unless_file_id(body) ==
    \/ ~ body.json
    \/ body.keys = {}
    \/ body_get(body, "fileId") = ""

\* the validation of lambda_handler answers 400 INVALID_REQUEST
invalid_request(body) ==
    \/ ~ body.json
    \/ body.keys = {}
    \/ body_get(body, "fileId") = ""
    \/ body_get(body, "model") = ""

PredictInvalid(r) ==
    /\ reader_may_start(r)
    /\ \E body \in PredictEvents :
         /\ invalid_request(body)
         /\ cons' = [cons EXCEPT ![r] =
                [@ EXCEPT !.pc = "done",
                          !.response = create_error_response(400, "INVALID_REQUEST",
                                                             aws_request_id(NumProducers + r))]]
    /\ UNCHANGED <<dirs, files, prod, faults, s3_objects>>

\* a plausible slip: the output directory is made before the artifact is
\* looked for
PredictNotFoundMakesDir(r) ==
    /\ reader_may_start(r)
    /\ \E body \in PredictEvents :
         /\ ~ invalid_request(body)
         /\ load_model_absent(r, body_get(body, "model"), body_get(body, "fileId"))
         /\ dirs' = dirs \cup {dirname(output_path(body_get(body, "fileId")))}
    /\ UNCHANGED <<files, prod, faults, s3_objects>>

PredictNotFound(r) ==
    /\ reader_may_start(r)
    /\ \E body \in PredictEvents :
         /\ ~ invalid_request(body)
         /\ load_model_absent(r, body_get(body, "model"), body_get(body, "fileId"))
    /\ UNCHANGED <<dirs, files, prod, faults, s3_objects>>

PredictCheck(r) ==
    /\ reader_may_start(r)
    /\ \E body \in PredictEvents :
         /\ ~ invalid_request(body)
         /\ load_model_present(r, body_get(body, "model"), body_get(body, "fileId"))
    /\ UNCHANGED <<dirs, files, prod, faults, s3_objects>>

\* a plausible slip: the result file is opened for exclusive creation
WriteResultOpenExclusive(r) ==
    /\ cons[r].pc = "loaded"
    /\ IF exists(output_path(cons[r].fileId))
       THEN /\ cons' = [cons EXCEPT ![r] =
                   [@ EXCEPT !.pc = "done",
                             !.response = create_error_response(500, "INTERNAL_ERROR",
                                              aws_request_id(NumProducers + r))]]
            /\ UNCHANGED <<dirs, files>>
       ELSE /\ \E ms \in Durations :
                 cons' = [cons EXCEPT ![r] =
                     [@ EXCEPT !.pc = "result",
                               !.result = process_inference(cons[r].model_data,
                                                            cons[r].fileId, ms)]]
            /\ dirs' = dirs \cup {dirname(output_path(cons[r].fileId))}
            /\ files' = put(files, output_path(cons[r].fileId), <<>>)
    /\ UNCHANGED <<prod, faults, s3_objects>>

\* process_inference, then write_result_to_efs up to open(output_path, 'w'):
\* the directory is made, the file is created or truncated
WriteResultOpen(r) ==
    /\ cons[r].pc = "loaded"
    /\ ~ isdir(output_path(cons[r].fileId))
    /\ \E ms \in Durations :
         cons' = [cons EXCEPT ![r] =
             [@ EXCEPT !.pc = "result",
                       !.result = process_inference(cons[r].model_data, cons[r].fileId, ms)]]
    /\ dirs' = dirs \cup {dirname(output_path(cons[r].fileId))}
    /\ files' = put(files, output_path(cons[r].fileId), <<>>)
    /\ UNCHANGED <<prod, faults, s3_objects>>

\* json.dump(result, f, indent=2), the close of the file, which writes the
\* buffered text at the descriptor's offset 0, and getsize
WriteResultDump(r) ==
    /\ cons[r].pc = "result"
    /\ files' = IF isfile(output_path(cons[r].fileId))
                THEN put(files, output_path(cons[r].fileId),
                         write_at_start(files[output_path(cons[r].fileId)],
                                        json_dump(cons[r].result)))
                ELSE files
    /\ cons' = [cons EXCEPT ![r].pc = "written"]
    /\ UNCHANGED <<dirs, prod, faults, s3_objects>>

\* a plausible slip: the upload is attempted whenever a bucket is configured
ArchiveWheneverBucket(r) ==
    /\ cons[r].pc = "written"
    /\ LET attempted == cons[r].s3_bucket_name # ""
       IN  \E ok \in (IF attempted THEN BOOLEAN ELSE {FALSE}) :
              /\ IF attempted /\ ~ ok THEN fault(1) ELSE fault(0)
              /\ s3_objects' = IF ok THEN put(s3_objects, archive_key(cons[r].fileId),
                                               json_dump(cons[r].result))
                               ELSE s3_objects
              /\ cons' = [cons EXCEPT ![r] =
                     [@ EXCEPT !.pc = "done", !.uploaded = ok,
                               !.response = predict_success_response(
                                   cons[r].fileId, output_path(cons[r].fileId),
                                   IF ok THEN archive_key(cons[r].fileId) ELSE "")]]
    /\ UNCHANGED <<dirs, files, prod>>

\* archive_to_s3 when archiving is enabled and a bucket is configured (a
\* failing put_object is logged and yields None), then create_success_response
ArchiveAndRespond(r) ==
    /\ cons[r].pc = "written"
    /\ LET attempted == cons[r].enable_s3_archive /\ cons[r].s3_bucket_name # ""
       IN  \E ok \in (IF attempted THEN BOOLEAN ELSE {FALSE}) :
              /\ IF attempted /\ ~ ok THEN fault(1) ELSE fault(0)
              /\ s3_objects' = IF ok THEN put(s3_objects, archive_key(cons[r].fileId),
                                               json_dump(cons[r].result))
                               ELSE s3_objects
              /\ cons' = [cons EXCEPT ![r] =
                     [@ EXCEPT !.pc = "done", !.uploaded = ok,
                               !.response = predict_success_response(
                                   cons[r].fileId, output_path(cons[r].fileId),
                                   IF ok THEN archive_key(cons[r].fileId) ELSE "")]]
    /\ UNCHANGED <<dirs, files, prod>>

\* a plausible slip: the upload does not depend on the write, the record is
\* archived although the write failed
WriteResultFailsStillArchives(r) ==
    /\ cons[r].pc \in {"loaded", "result"}
    /\ IF isdir(output_path(cons[r].fileId)) THEN fault(0) ELSE fault(1)
    /\ dirs' = dirs
    /\ s3_objects' = put(s3_objects, archive_key(cons[r].fileId), json_dump(cons[r].result))
    /\ cons' = [cons EXCEPT ![r] =
           [@ EXCEPT !.pc = "done",
                     !.response = create_error_response(500, "INTERNAL_ERROR",
                                                        aws_request_id(NumProducers + r))]]
    /\ UNCHANGED <<files, prod>>

\* a plausible slip: the OSError is raised again outside the try block, the
\* invocation ends without a response
WriteResultFailsEscapes(r) ==
    /\ cons[r].pc \in {"loaded", "result"}
    /\ IF isdir(output_path(cons[r].fileId)) THEN fault(0) ELSE fault(1)
    /\ \E made \in BOOLEAN :
         dirs' = IF made THEN dirs \cup {dirname(output_path(cons[r].fileId))} ELSE dirs
    /\ cons' = [cons EXCEPT ![r] = [@ EXCEPT !.pc = "done"]]
    /\ UNCHANGED <<files, prod, s3_objects>>

\* makedirs, open, write or getsize raises OSError: Exception, 500
\* INTERNAL_ERROR; the directory may have been made before the failure
WriteResultFails(r) ==
    /\ cons[r].pc \in {"loaded", "result"}
    /\ IF isdir(output_path(cons[r].fileId)) THEN fault(0) ELSE fault(1)
    /\ \E made \in BOOLEAN :
         dirs' = IF made THEN dirs \cup {dirname(output_path(cons[r].fileId))} ELSE dirs
    /\ cons' = [cons EXCEPT ![r] =
           [@ EXCEPT !.pc = "done",
                     !.response = create_error_response(500, "INTERNAL_ERROR",
                                                        aws_request_id(NumProducers + r))]]
    /\ UNCHANGED <<files, prod, s3_objects>>

InitProcess ==
    /\ dirs = {"/", "/mnt", EFS_MOUNT_PATH}
    /\ files = <<>>
    /\ prod = [i \in Ingests |-> IdleProducer]
    /\ \E enable \in BOOLEAN, bucket \in Buckets :
         cons = [r \in Requests |->
                    [IdleReader EXCEPT !.enable_s3_archive = enable,
                                       !.s3_bucket_name = bucket]]
    /\ faults = 0
    /\ s3_objects = <<>>

NextProcess ==
    \/ \E i \in Ingests : InvokeApiData(i)
    \/ \E i \in Ingests : WriteTemp(i)
    \/ \E i \in Ingests : Rename(i)
    \/ \E i \in Ingests : WriteFails(i)
    \/ \E i \in Ingests : InvokeMountFailed(i)
    \/ \E r \in Requests : PredictInvalid(r)
    \/ \E r \in Requests : PredictNotFound(r)
    \/ \E r \in Requests : PredictCheck(r)
    \/ \E r \in Requests : LoadModelRead(r)
    \/ \E r \in Requests : LoadModelReadFails(r)
    \/ \E r \in Requests : WriteResultOpen(r)
    \/ \E r \in Requests : WriteResultDump(r)
    \/ \E r \in Requests : WriteResultFails(r)
    \/ \E r \in Requests : ArchiveAndRespond(r)

SpecProcess == InitProcess /\ [][NextProcess]_vars

(***************************************************************************)
(* Processing requests over a namespace that holds one artifact, whatever  *)
(* its bytes.                                                              *)
(***************************************************************************)
MaxLen == 3

Artifacts == UNION { [1..n -> {1, 2}] : n \in 0..MaxLen }

InitInference ==
    /\ dirs = {"/", "/mnt", EFS_MOUNT_PATH} \cup CategoryDirs
    /\ \E model_data \in Artifacts : files = put(<<>>, model_path("a"), model_data)
    /\ prod = <<>>
    /\ cons = [r \in Requests |-> IdleReader]
    /\ faults = 0
    /\ s3_objects = <<>>

NextInference ==
    \/ \E r \in Requests : PredictInvalid(r)
    \/ \E r \in Requests : PredictNotFound(r)
    \/ \E r \in Requests : PredictCheck(r)
    \/ \E r \in Requests : LoadModelRead(r)
    \/ \E r \in Requests : LoadModelReadFails(r)
    \/ \E r \in Requests : WriteResultOpen(r)
    \/ \E r \in Requests : WriteResultDump(r)
    \/ \E r \in Requests : WriteResultFails(r)
    \/ \E r \in Requests : ArchiveAndRespond(r)

SpecInference == InitInference /\ [][NextInference]_vars

(***************************************************************************)
(* Both handlers with every form of request: one ingestion next to the     *)
(* processing requests.                                                    *)
(***************************************************************************)
NextHandlers ==
    \/ \E i \in Ingests : InvokeS3Event(i)
    \/ \E i \in Ingests : InvokeApiKey(i)
    \/ \E i \in Ingests : InvokeApiData(i)
    \/ \E i \in Ingests : InvokeApiInvalid(i)
    \/ \E i \in Ingests : InvokeApiKeyEmpty(i)
    \/ \E i \in Ingests : InvokeApiUnconfigured(i)
    \/ \E i \in Ingests : WriteTemp(i)
    \/ \E i \in Ingests : Rename(i)
    \/ \E i \in Ingests : WriteFails(i)
    \/ \E i \in Ingests : InvokeMountFailed(i)
    \/ \E r \in Requests : PredictInvalid(r)
    \/ \E r \in Requests : PredictNotFound(r)
    \/ \E r \in Requests : PredictCheck(r)
    \/ \E r \in Requests : LoadModelRead(r)
    \/ \E r \in Requests : LoadModelReadFails(r)
    \/ \E r \in Requests : WriteResultOpen(r)
    \/ \E r \in Requests : WriteResultDump(r)
    \/ \E r \in Requests : WriteResultFails(r)
    \/ \E r \in Requests : ArchiveAndRespond(r)

SpecHandlers == InitProcess /\ [][NextHandlers]_vars

(***************************************************************************)
(* Vocabulary of the properties.                                           *)
(***************************************************************************)
is_temp(p) == startswith(basename(p), ".tmp-")

TargetPaths == { final_path(k) : k \in Keys }

Succeeded(i) == prod[i].pc = "done" /\ prod[i].response.statusCode = 200

\* invocation i renamed its temporary file onto its target path
Renamed(i) == Succeeded(i) /\ prod[i].response.fileId = uuid4(i)

\* invocation i found its target path at the idempotency check
Replayed(i) == Succeeded(i) /\ prod[i].existed

Publishers(p) == { i \in Producers : Renamed(i) /\ prod[i].response.efsPath = p }

InFlight(p) == { i \in Producers : prod[i].pc = "write" /\ final_path(prod[i].key) = p }

(***************************************************************************)
(* C1: whatever the interleaving of publishers and readers of one target   *)
(* path, the bytes a reader gets from the path are the complete payload of *)
(* one invocation that published there (a reader that finds no file gets   *)
(* none): never an empty file, a prefix or a mix.                          *)
(***************************************************************************)
NoPartialVisibility ==
    \A r \in Readers :
        cons[r].pc = "loaded" =>
            \E i \in Publishers(model_path(cons[r].model)) :
                cons[r].model_data = prod[i].file_data

\* a reader has read the path while another publisher of it has written part
\* of its payload
ReadDuringPartialWrite ==
    \E r \in Readers, i \in Producers :
        /\ cons[r].pc = "loaded"
        /\ i \in InFlight(model_path(cons[r].model))
        /\ prod[i].written >= 1
        /\ prod[i].written < Len(prod[i].file_data)

(***************************************************************************)
(* C2: once every publisher of a target path has finished, the path holds  *)
(* the complete payload of exactly one of the invocations that renamed     *)
(* onto it, whichever of the racing first-time publishers that is.         *)
(***************************************************************************)
RaceLeavesOneCompletePayload ==
    \A p \in TargetPaths :
        (InFlight(p) = {} /\ Publishers(p) # {}) =>
            /\ isfile(p)
            /\ \E i \in Publishers(p) : files[p] = prod[i].file_data

\* two first-time publishers with different payloads raced and both finished
RaceOfTwoFinished ==
    \E p \in TargetPaths :
        /\ InFlight(p) = {}
        /\ \E i, j \in Publishers(p) : prod[i].file_data # prod[j].file_data

(***************************************************************************)
(* C3: two successful ingestions of the same key with identical bytes      *)
(* return the same fileId (first publish and replay, or two racing first   *)
(* publishers).                                                            *)
(***************************************************************************)
SameKeySameBytesSameId ==
    \A i, j \in Producers :
        ( /\ Succeeded(i)
          /\ Succeeded(j)
          /\ prod[i].key = prod[j].key
          /\ prod[i].file_data = prod[j].file_data )
        => prod[i].response.fileId = prod[j].response.fileId

(***************************************************************************)
(* C4: an ingestion that finds its target path already existing changes no *)
(* file (nothing rewritten, truncated or replaced, no temporary file       *)
(* created), creates no directory when the target is a file, and returns   *)
(* 200.                                                                    *)
(***************************************************************************)
ReplayLeavesNamespaceUnchanged ==
    [][ \A i \in Producers :
          (prod[i].pc = "idle" /\ prod'[i].pc # "idle" /\ prod'[i].existed) =>
              /\ files' = files
              /\ isfile(final_path(prod'[i].key)) => dirs' = dirs
              /\ prod'[i].pc = "done"
              /\ prod'[i].response.statusCode = 200 ]_vars

\* a replay carrying other bytes than the stored file has returned
ReplayWithOtherBytesDone ==
    \E i \in Producers :
        /\ Replayed(i)
        /\ isfile(prod[i].response.efsPath)
        /\ files[prod[i].response.efsPath] # prod[i].file_data

(***************************************************************************)
(* C5, as claimed: once a file exists at a target path its content is the  *)
(* same in every later state.                                              *)
(***************************************************************************)
FirstWriterBytesPersist ==
    [][ \A p \in DOMAIN files :
          ~ is_temp(p) => (p \in DOMAIN files' /\ files'[p] = files[p]) ]_vars

(***************************************************************************)
(* C5, amended: the content of an existing file at a target path changes   *)
(* only by the rename of a publisher whose idempotency check found the     *)
(* path absent, and then it becomes that publisher's complete payload; no  *)
(* invocation that checked after the file appeared, and no reader, changes *)
(* it.                                                                     *)
(***************************************************************************)
ContentReplacedOnlyByRacingPublisher ==
    [][ \A p \in DOMAIN files :
          (~ is_temp(p) /\ p \in DOMAIN files' /\ files'[p] # files[p]) =>
              \E i \in Producers :
                  /\ prod[i].pc = "write"
                  /\ ~ prod[i].existed
                  /\ final_path(prod[i].key) = p
                  /\ prod'[i].pc = "done"
                  /\ files'[p] = prod[i].file_data ]_vars

\* a reader holds bytes it read from a target path that now holds other bytes
ReadThenReplaced ==
    \E r \in Readers :
        /\ cons[r].pc = "loaded"
        /\ isfile(model_path(cons[r].model))
        /\ files[model_path(cons[r].model)] # cons[r].model_data

(***************************************************************************)
(* C6, as claimed: at most one invocation's rename onto a target path      *)
(* takes effect.                                                           *)
(***************************************************************************)
AtMostOneRenamePerPath ==
    \A p \in TargetPaths : Cardinality(Publishers(p)) <= 1

(***************************************************************************)
(* C6, amended: only an invocation whose idempotency check found the path  *)
(* absent writes a temporary file or renames; an invocation whose check    *)
(* found the path has finished with the path-derived identifier and has    *)
(* renamed nothing.  Several racing first-time publishers may each rename. *)
(***************************************************************************)
RenameOnlyAfterAbsentCheck ==
    \A i \in Producers :
        /\ prod[i].pc = "write" => ~ prod[i].existed
        /\ Renamed(i) => ~ prod[i].existed
        /\ prod[i].existed =>
              /\ prod[i].pc = "done"
              /\ prod[i].response.fileId = uuid5(final_path(prod[i].key))
              /\ ~ isfile(temp_path(prod[i].key, uuid4(i)))

\* the renames of two invocations onto one path both took effect
TwoRenamesTookEffect ==
    \E p \in TargetPaths : Cardinality(Publishers(p)) >= 2

(***************************************************************************)
(* C7: whenever an ingestion has returned 200 with efsPath P, a regular    *)
(* file holding a complete payload exists at P, for every key.             *)
(***************************************************************************)
SuccessImpliesFileAtPath ==
    \A i \in Producers :
        Succeeded(i) =>
            /\ isfile(prod[i].response.efsPath)
            /\ files[prod[i].response.efsPath] \in Payloads

(***************************************************************************)
(* C8: two ingestions that found the same target path existing return the  *)
(* same fileId, whatever their bytes, request ids or ingress.              *)
(***************************************************************************)
ReplayIdDependsOnPathOnly ==
    \A i, j \in Producers :
        ( /\ Replayed(i)
          /\ Replayed(j)
          /\ prod[i].response.efsPath = prod[j].response.efsPath )
        => prod[i].response.fileId = prod[j].response.fileId

\* two replays of one published file, carrying different bytes
TwoReplaysOfOneFile ==
    \E i, j \in Producers :
        /\ Replayed(i)
        /\ Replayed(j)
        /\ prod[i].response.efsPath = prod[j].response.efsPath
        /\ isfile(prod[i].response.efsPath)
        /\ prod[i].file_data # prod[j].file_data

(***************************************************************************)
(* C9: no step removes a file at a target path or a directory; a path that *)
(* disappears is the temporary path of the invocation taking the step.     *)
(***************************************************************************)
PublishedFileNeverRemoved ==
    [][ /\ dirs \subseteq dirs'
        /\ \A p \in DOMAIN files :
             p \notin DOMAIN files' =>
                 /\ is_temp(p)
                 /\ \E i \in Producers :
                      /\ prod[i].pc = "write"
                      /\ prod'[i].pc = "done"
                      /\ p = temp_path(prod[i].key, prod[i].file_id) ]_vars

\* an invocation failed and removed its temporary file while a published
\* file exists
CleanupBesidePublishedFile ==
    \E i \in Producers, p \in TargetPaths :
        /\ prod[i].pc = "done"
        /\ prod[i].response.statusCode = 500
        /\ prod[i].file_id = uuid4(i)
        /\ final_path(prod[i].key) = p
        /\ ~ isfile(temp_path(prod[i].key, prod[i].file_id))
        /\ isfile(p)

(***************************************************************************)
(* C10: an ingestion whose byte length exceeds the maximum returns 413 and *)
(* creates no temporary or target file, on every ingress path.             *)
(***************************************************************************)
OversizeRejected ==
    \A i \in Producers :
        (Len(prod[i].file_data) > max_size \/ prod[i].response.sizeBytes > max_size) =>
            /\ prod[i].pc = "done"
            /\ prod[i].response.statusCode = 413
            /\ prod[i].file_id = ""

(***************************************************************************)
(* C11: a well-formed processing request that starts while nothing exists  *)
(* at its read path is answered 404 NOT_FOUND with its fileId and the      *)
(* attempted path in the body, never 200 or 500.                           *)
(***************************************************************************)
AbsentArtifactIs404 ==
    [][ \A r \in DOMAIN cons :
          ( /\ cons[r].pc = "idle"
            /\ cons'[r].pc # "idle"
            /\ cons'[r].model # ""
            /\ ~ exists(model_path(cons'[r].model)) ) =>
              /\ cons'[r].pc = "done"
              /\ cons'[r].response.statusCode = 404
              /\ cons'[r].response.error = "NOT_FOUND"
              /\ cons'[r].response.fileId = cons'[r].fileId
              /\ cons'[r].response.efsPath = model_path(cons'[r].model) ]_vars

\* a processing request was answered 404 before any ingestion was invoked
NotFoundBeforeAnyPublish ==
    \E r \in DOMAIN cons :
        /\ cons[r].pc = "done"
        /\ cons[r].response.statusCode = 404
        /\ cons[r].response.efsPath = model_path(cons[r].model)
        /\ \A i \in DOMAIN prod : prod[i].pc = "idle"

(***************************************************************************)
(* C12: concurrent processing requests, with or without an ingestion that  *)
(* publishes the artifact meanwhile, are answered 404 or 200; a request is *)
(* answered 500 only in a step in which an I/O fault is injected, so a run *)
(* without fault holds no 500 and no mix of 404 and 500.                   *)
(***************************************************************************)
ServerErrorOnlyByFault ==
    [][ \A r \in DOMAIN cons :
          ( /\ cons[r].pc # "done"
            /\ cons'[r].pc = "done"
            /\ cons'[r].model # "" ) =>
              \/ cons'[r].response.statusCode \in {200, 404}
              \/ /\ cons'[r].response.statusCode = 500
                 /\ faults' = faults + 1 ]_vars

\* two requests for one key are over in a run without fault, one answered
\* 404 and one 200: the publish landed between them
PublishLandsBetweenRequests ==
    \E r, q \in DOMAIN cons :
        /\ faults = 0
        /\ cons[r].pc = "done" /\ cons[q].pc = "done"
        /\ cons[r].model = cons[q].model /\ cons[r].fileId = cons[q].fileId
        /\ cons[r].response.statusCode = 404
        /\ cons[q].response.statusCode = 200
        /\ \E i \in DOMAIN prod : Renamed(i)

(***************************************************************************)
(* C13: once an inline ingestion has published its bytes and returned 200  *)
(* with an identifier, a processing request that carries this identifier   *)
(* as its fileId finds the artifact (it is not answered 404), and when it  *)
(* is answered 200 its result has the length and the digest of the bytes.  *)
(***************************************************************************)
ReturnedIdLocatesArtifact ==
    [][ \A r \in DOMAIN cons, i \in DOMAIN prod :
          ( /\ Renamed(i)
            /\ cons[r].pc # "done"
            /\ cons'[r].pc = "done"
            /\ cons'[r].fileId = prod[i].response.fileId ) =>
              /\ cons'[r].response.statusCode # 404
              /\ cons'[r].response.statusCode = 200 =>
                    /\ cons'[r].result.fileSize = Len(prod[i].file_data)
                    /\ cons'[r].result.checksum = sha256(prod[i].file_data) ]_vars

(***************************************************************************)
(* C14: the path a processing request reads is the ingestion target path   *)
(* of its fileId, for every fileId that is a key an ingestion has          *)
(* published in the models category, whatever the model label.             *)
(***************************************************************************)
ReadPathIsTargetPathOfKey ==
    \A r \in DOMAIN cons, i \in DOMAIN prod :
        ( /\ Renamed(i)
          /\ target_dir(prod[i].key) = path_join(EFS_MOUNT_PATH, "models")
          /\ cons[r].pc # "idle"
          /\ cons[r].fileId = prod[i].key ) =>
            /\ model_path(cons[r].model) = final_path(cons[r].fileId)
            /\ cons[r].response.statusCode = 404 =>
                  cons[r].response.efsPath = final_path(cons[r].fileId)

(***************************************************************************)
(* C15: two processing requests that read the same bytes compute results   *)
(* with the same fileSize, checksum, uniqueBytes and mostCommonByte,       *)
(* whatever their request ids, their timing and the steps in between.      *)
(***************************************************************************)
SameBytesSameResult ==
    \A r, q \in DOMAIN cons :
        ( /\ cons[r].result # NoResult
          /\ cons[q].result # NoResult
          /\ cons[r].model_data = cons[q].model_data ) =>
            /\ cons[r].result.fileSize = cons[q].result.fileSize
            /\ cons[r].result.checksum = cons[q].result.checksum
            /\ cons[r].result.uniqueBytes = cons[q].result.uniqueBytes
            /\ cons[r].result.mostCommonByte = cons[q].result.mostCommonByte

\* two requests were answered 200 for the same bytes, which hold two byte
\* values, with different timing fields
SameBytesOtherTiming ==
    \E r, q \in DOMAIN cons :
        /\ cons[r].response.statusCode = 200
        /\ cons[q].response.statusCode = 200
        /\ cons[r].model_data = cons[q].model_data
        /\ cons[r].result.uniqueBytes = 2
        /\ cons[r].result.processingDurationMs # cons[q].result.processingDurationMs

(***************************************************************************)
(* C16: a processing request that has written its Result Record is         *)
(* answered 200 whether the archive upload succeeded, failed or was not    *)
(* attempted, and its response carries s3Key exactly when archiving is     *)
(* enabled, a bucket is configured and the upload succeeded.               *)
(***************************************************************************)
ArchiveIsBestEffort ==
    [][ \A r \in DOMAIN cons :
          (cons[r].pc = "written" /\ cons'[r].pc # "written") =>
              /\ cons'[r].pc = "done"
              /\ cons'[r].response.statusCode = 200
              /\ cons'[r].response.s3Key # "" <=>
                    /\ cons[r].enable_s3_archive
                    /\ cons[r].s3_bucket_name # ""
                    /\ cons'[r].uploaded
              /\ cons'[r].response.s3Key \in {"", archive_key(cons[r].fileId)} ]_vars

\* with archiving enabled and a bucket configured, one request was answered
\* 200 without s3Key after its upload failed and one with s3Key
UploadFailedAndUploadDone ==
    \E r, q \in DOMAIN cons :
        /\ cons[r].enable_s3_archive /\ cons[r].s3_bucket_name # ""
        /\ cons[r].response.statusCode = 200
        /\ ~ cons[r].uploaded
        /\ cons[r].response.s3Key = ""
        /\ isfile(output_path(cons[r].fileId))
        /\ cons[q].response.statusCode = 200
        /\ cons[q].uploaded
        /\ cons[q].response.s3Key = archive_key(cons[q].fileId)

(***************************************************************************)
(* C17: every response of either service that is not a 200 carries the     *)
(* request id of its invocation.                                           *)
(***************************************************************************)
ErrorCarriesRequestId ==
    /\ \A i \in DOMAIN prod :
         (prod[i].pc = "done" /\ prod[i].response.statusCode # 200) =>
             prod[i].response.requestId = aws_request_id(i)
    /\ \A r \in DOMAIN cons :
         (cons[r].pc = "done" /\ cons[r].response.statusCode # 200) =>
             cons[r].response.requestId = aws_request_id(NumProducers + r)

(***************************************************************************)
(* C18: an ingestion answered 400 or 413 leaves the namespace, files and   *)
(* directories, and the object store as they were.                         *)
(***************************************************************************)
ClientErrorChangesNothing ==
    [][ \A i \in DOMAIN prod :
          ( /\ prod[i].pc = "idle"
            /\ prod'[i].pc = "done"
            /\ prod'[i].response.statusCode \in {400, 413} ) =>
              /\ files' = files
              /\ dirs' = dirs
              /\ s3_objects' = s3_objects ]_vars

(***************************************************************************)
(* C18, as the code has it: an ingestion answered 400 or 413 leaves every  *)
(* file of the namespace and the object store as they were; the category   *)
(* directories exist afterwards and no other directory is made.            *)
(***************************************************************************)
ClientErrorOnlyEnsuresDirectories ==
    [][ \A i \in DOMAIN prod :
          ( /\ prod[i].pc = "idle"
            /\ prod'[i].pc = "done"
            /\ prod'[i].response.statusCode \in {400, 413} ) =>
              /\ files' = files
              /\ dirs' = dirs \cup CategoryDirs
              /\ s3_objects' = s3_objects ]_vars

\* a request was rejected and the namespace holds a published file
RejectedBesidePublishedFile ==
    \E i, j \in DOMAIN prod :
        /\ prod[i].pc = "done"
        /\ prod[i].response.statusCode \in {400, 413}
        /\ Renamed(j)
        /\ isfile(final_path(prod[j].key))

(***************************************************************************)
(* C19: an ingestion API request with a malformed body, without 'key' and  *)
(* 'data', or with an empty key is answered 400 INVALID_REQUEST (unless    *)
(* the mount or the configuration fails first).                            *)
(***************************************************************************)
MalformedRequestIs400 ==
    \A i \in DOMAIN prod :
        ( /\ prod[i].pc = "done"
          /\ prod[i].key = ""
          /\ prod[i].response.error \notin {"MOUNT_FAILED", "CONFIGURATION_ERROR"} ) =>
            /\ prod[i].response.statusCode = 400
            /\ prod[i].response.error = "INVALID_REQUEST"

(***************************************************************************)
(* C20: an ingestion whose fetch fails is answered 404 S3_NOT_FOUND for an *)
(* absent object, 403 S3_ACCESS_DENIED for a denied access and 500         *)
(* INTERNAL_ERROR for any other error, on both fetching paths, and the     *)
(* step creates no file in the namespace and names no temporary file.      *)
(***************************************************************************)
FetchErrorCreatesNoFile ==
    [][ \A i \in DOMAIN prod :
          ( /\ prod[i].pc = "idle"
            /\ prod'[i].pc = "done"
            /\ prod'[i].response.error \in
                   {"S3_NOT_FOUND", "S3_ACCESS_DENIED", "INTERNAL_ERROR"} ) =>
              /\ files' = files
              /\ prod'[i].file_id = ""
              /\ prod'[i].response.statusCode =
                     CASE prod'[i].response.error = "S3_NOT_FOUND" -> 404
                       [] prod'[i].response.error = "S3_ACCESS_DENIED" -> 403
                       [] OTHER -> 500 ]_vars

\* a fetch failed for a key whose target path holds a published file
FetchFailedBesidePublishedFile ==
    \E i, j \in DOMAIN prod :
        /\ prod[i].pc = "done"
        /\ prod[i].response.error \in {"S3_NOT_FOUND", "S3_ACCESS_DENIED"}
        /\ prod[i].key # ""
        /\ Renamed(j)
        /\ final_path(prod[j].key) = final_path(prod[i].key)
        /\ DOMAIN files = {final_path(prod[j].key)}

(***************************************************************************)
(* C21: an ingestion whose write or rename fails is answered 500           *)
(* INTERNAL_ERROR; the step neither creates nor changes a file at the      *)
(* target path; unless the delete fails too, the invocation's temporary    *)
(* file is gone when the response is returned, and a failing delete leaves *)
(* the response as it is.                                                  *)
(***************************************************************************)
WriteFailureCleansUp ==
    [][ \A i \in DOMAIN prod :
          ( /\ prod[i].pc = "write"
            /\ prod'[i].pc = "done"
            /\ prod'[i].response.statusCode # 200 ) =>
              LET tp == temp_path(prod[i].key, prod[i].file_id)
                  fp == final_path(prod[i].key)
              IN  /\ prod'[i].response =
                         create_error_response(500, "INTERNAL_ERROR", aws_request_id(i))
                  /\ fp \in DOMAIN files' => (fp \in DOMAIN files /\ files'[fp] = files[fp])
                  /\ ~ prod'[i].remove_failed => tp \notin DOMAIN files'
                  /\ files' \in {files, del(files, tp)} ]_vars

\* an invocation failed while another was writing to the same directory:
\* its temporary file is gone, the other's is there, the target path is free
WriteFailedAndCleanedUp ==
    \E i, j \in DOMAIN prod :
        /\ prod[i].pc = "done"
        /\ prod[i].response = create_error_response(500, "INTERNAL_ERROR", aws_request_id(i))
        /\ prod[i].file_id = uuid4(i)
        /\ ~ prod[i].remove_failed
        /\ ~ isfile(temp_path(prod[i].key, prod[i].file_id))
        /\ ~ isfile(final_path(prod[i].key))
        /\ prod[j].pc = "write"
        /\ isfile(temp_path(prod[j].key, prod[j].file_id))

(***************************************************************************)
(* C22: the step that starts an ingestion either ensures the three         *)
(* category directories and only then fetches, writes or answers, or fails *)
(* to ensure them and answers 500 MOUNT_FAILED without a request parsed, a *)
(* fetch, a temporary file or any change of a file; MOUNT_FAILED is never  *)
(* the answer to a failing write, which is INTERNAL_ERROR.                 *)
(***************************************************************************)
EnsureBeforeFetchAndWrite ==
    [][ \A i \in DOMAIN prod :
          (prod[i].pc # "done" /\ prod'[i].pc # prod[i].pc) =>
              IF prod'[i].response.error = "MOUNT_FAILED"
              THEN /\ prod[i].pc = "idle"
                   /\ prod'[i] = finish(IdleProducer,
                          create_error_response(500, "MOUNT_FAILED", aws_request_id(i)))
                   /\ files' = files
                   /\ s3_objects' = s3_objects
                   /\ faults' = faults + 1
              ELSE /\ CategoryDirs \subseteq dirs'
                   /\ prod[i].pc = "write" /\ prod'[i].response.statusCode = 500
                        => prod'[i].response.error = "INTERNAL_ERROR" ]_vars

\* an ingestion was answered MOUNT_FAILED after the first directory was made:
\* the other directories and every file are missing
MountFailedHalfway ==
    \E i \in DOMAIN prod :
        /\ prod[i].pc = "done"
        /\ prod[i].response.error = "MOUNT_FAILED"
        /\ isdir(path_join(EFS_MOUNT_PATH, "models"))
        /\ ~ isdir(path_join(EFS_MOUNT_PATH, "outputs"))
        /\ DOMAIN files = {}

(***************************************************************************)
(* C23: the target path of a key is the mount root, the category directory *)
(* and the key without its first models/ or inputs/ prefix, or             *)
(* models/<basename> for any other key: every ingestion that has returned  *)
(* 200 names this path and the path holds a file.                          *)
(***************************************************************************)
category_path(key) ==
    IF startswith(key, "models/")
    THEN EFS_MOUNT_PATH \o "/models/" \o strip_prefix(key, "models/")
    ELSE IF startswith(key, "inputs/")
    THEN EFS_MOUNT_PATH \o "/inputs/" \o strip_prefix(key, "inputs/")
    ELSE EFS_MOUNT_PATH \o "/models/" \o basename(key)

TargetPathIsUnderCategory ==
    \A i \in DOMAIN prod :
        Succeeded(i) =>
            /\ prod[i].response.efsPath = category_path(prod[i].key)
            /\ isfile(category_path(prod[i].key))

(***************************************************************************)
(* C24: an ingestion request of the harness, whose body carries a fresh    *)
(* key models/<name> and inline data while the bucket holds no object of   *)
(* that key, is answered 200 with fileId, efsPath and s3Key.               *)
(***************************************************************************)
KeyWithInlineDataReturns200 ==
    \A i \in DOMAIN prod :
        ( /\ prod[i].pc = "done"
          /\ prod[i].key = test_model_key(i)
          /\ prod[i].key \notin DOMAIN s3_objects ) =>
            /\ prod[i].response.statusCode = 200
            /\ prod[i].response.fileId # ""
            /\ prod[i].response.efsPath = final_path(prod[i].key)
            /\ prod[i].response.s3Key = prod[i].key

(***************************************************************************)
(* C25: an ingestion that starts while a file exists at the target path of *)
(* its key is answered 200 with the path-derived identifier, whether the   *)
(* origin object is present, absent or access-denied (oversize, mount and  *)
(* configuration failures aside).                                          *)
(***************************************************************************)
ExistingTargetDecidesBeforeFetch ==
    [][ \A i \in DOMAIN prod :
          ( /\ prod[i].pc = "idle"
            /\ prod'[i].pc # "idle"
            /\ prod'[i].key # ""
            /\ isfile(final_path(prod'[i].key))
            /\ prod'[i].response.error \notin
                   {"FILE_TOO_LARGE", "MOUNT_FAILED", "CONFIGURATION_ERROR"} ) =>
              /\ prod'[i].pc = "done"
              /\ prod'[i].response.statusCode = 200
              /\ prod'[i].response.fileId = uuid5(final_path(prod'[i].key)) ]_vars

(***************************************************************************)
(* C26: the temporary file of an ingestion lies in the directory of its    *)
(* target path, for every key, so that the rename stays within one         *)
(* directory.                                                              *)
(***************************************************************************)
TempInDirectoryOfTarget ==
    \A i \in DOMAIN prod :
        (prod[i].pc = "write" /\ isfile(temp_path(prod[i].key, prod[i].file_id))) =>
            dirname(temp_path(prod[i].key, prod[i].file_id)) = dirname(final_path(prod[i].key))

(***************************************************************************)
(* C27: the temporary paths of two invocations differ, whatever their keys *)
(* and however they interleave, and the temporary path of an invocation is *)
(* the target path of no key, published or not.                            *)
(***************************************************************************)
TempPathsNeverCollide ==
    \A i \in DOMAIN prod :
        prod[i].file_id = uuid4(i) =>
            LET tp == temp_path(prod[i].key, prod[i].file_id)
            IN  /\ \A j \in DOMAIN prod \ {i} :
                     prod[j].file_id = uuid4(j) =>
                         tp # temp_path(prod[j].key, prod[j].file_id)
                /\ \A j \in DOMAIN prod : prod[j].pc # "idle" => tp # final_path(prod[j].key)
                /\ \A key \in PathKeys : tp # final_path(key)

\* two invocations are writing one key at once, each to its own temporary
\* file in the same directory
TwoTempFilesOfOneKey ==
    \E i, j \in DOMAIN prod :
        /\ i # j
        /\ prod[i].pc = "write" /\ prod[j].pc = "write"
        /\ prod[i].key = prod[j].key
        /\ prod[i].written >= 1 /\ prod[j].written >= 1
        /\ isfile(temp_path(prod[i].key, prod[i].file_id))
        /\ isfile(temp_path(prod[j].key, prod[j].file_id))

(***************************************************************************)
(* C28: a processing request that found its artifact at the existence      *)
(* check and fails to read it is answered 500 INTERNAL_ERROR, not 404, and *)
(* the step writes no Result Record: files, directories and the archive    *)
(* stay as they were and the request has no result.                        *)
(***************************************************************************)
ReadFailureIs500 ==
    [][ \A r \in DOMAIN cons :
          (cons[r].pc = "read" /\ cons'[r].pc = "done") =>
              /\ cons'[r].response =
                     create_error_response(500, "INTERNAL_ERROR",
                                           aws_request_id(NumProducers + r))
              /\ cons'[r].result = NoResult
              /\ files' = files
              /\ dirs' = dirs
              /\ s3_objects' = s3_objects ]_vars

\* the read of one request failed on an artifact that another request read
\* and processed; the only Result Record is that of the other request
ReadFailedOnReadableArtifact ==
    \E r, q \in DOMAIN cons :
        /\ cons[r].pc = "done"
        /\ cons[r].response.statusCode = 500
        /\ cons[r].model_data = <<>>
        /\ isfile(model_path(cons[r].model))
        /\ files[model_path(cons[r].model)] # <<>>
        /\ cons[q].model = cons[r].model
        /\ cons[q].response.statusCode = 200
        /\ DOMAIN files = {model_path(cons[r].model), output_path(cons[q].fileId)}
        /\ files[output_path(cons[q].fileId)] = json_dump(cons[q].result)

NotFoundChangesNothing ==
    [][ \A r \in DOMAIN cons :
          ( /\ cons[r].pc # "done"
            /\ cons'[r].pc = "done"
            /\ cons'[r].response.statusCode = 404 ) =>
              /\ cons[r].pc = "idle"
              /\ cons'[r].result = NoResult
              /\ files' = files
              /\ dirs' = dirs
              /\ s3_objects' = s3_objects ]_vars

\* a request was answered 404 beside the Result Record and the archived
\* object of another request
NotFoundBesideArchivedResult ==
    \E r, q \in DOMAIN cons :
        /\ cons[r].pc = "done"
        /\ cons[r].response.statusCode = 404
        /\ cons[q].response.statusCode = 200
        /\ cons[q].uploaded
        /\ isfile(output_path(cons[q].fileId))
        /\ archive_key(cons[q].fileId) \in DOMAIN s3_objects

(***************************************************************************)
(* C31: a processing invocation reads its artifact, then writes its Result *)
(* Record to outputs/<fileId>.result, then archives it if it is to, then   *)
(* responds: a 200 comes only from an invocation whose record was written  *)
(* to that path, an upload only from such an invocation, and a failing     *)
(* write ends in 500 with nothing uploaded.                                *)
(***************************************************************************)
first_items(s, n) == [k \in 1..(IF Len(s) < n THEN Len(s) ELSE n) |-> s[k]]

ReadWriteArchiveRespond ==
    [][ /\ \A r \in DOMAIN cons :
             cons'[r].pc # cons[r].pc =>
                 /\ cons'[r].pc = "loaded" => cons[r].pc = "read"
                 /\ cons'[r].pc = "result" => cons[r].pc = "loaded"
                 /\ cons'[r].pc = "written" =>
                        /\ cons[r].pc = "result"
                        /\ isfile(output_path(cons[r].fileId))'
                        /\ first_items(files'[output_path(cons[r].fileId)],
                                       Len(json_dump(cons[r].result)))
                               = json_dump(cons[r].result)
                 /\ cons'[r].response.statusCode = 200 =>
                        /\ cons[r].pc = "written"
                        /\ cons[r].result.fileId = cons[r].fileId
                        /\ cons'[r].result = cons[r].result
                        /\ cons'[r].response.efsPath = output_path(cons[r].fileId)
                 /\ (cons[r].pc \in {"loaded", "result"} /\ cons'[r].pc = "done") =>
                        /\ cons'[r].response.statusCode = 500
                        /\ ~ cons'[r].uploaded
                        /\ s3_objects' = s3_objects
        /\ s3_objects' # s3_objects =>
             \E r \in DOMAIN cons :
                 /\ cons[r].pc = "written"
                 /\ cons'[r].pc = "done"
                 /\ s3_objects' = put(s3_objects, archive_key(cons[r].fileId),
                                      json_dump(cons[r].result)) ]_vars

\* one request was answered 200 after its record was written and archived,
\* another failed in its write and was answered 500
WrittenArchivedAndWriteFailed ==
    \E r, q \in DOMAIN cons :
        /\ cons[r].response.statusCode = 200
        /\ cons[r].uploaded
        /\ isfile(output_path(cons[r].fileId))
        /\ s3_objects[archive_key(cons[r].fileId)] = json_dump(cons[r].result)
        /\ cons[q].response.statusCode = 500
        /\ cons[q].model_data # <<>>
        /\ DOMAIN s3_objects = {archive_key(cons[r].fileId)}

(***************************************************************************)
(* C32: in a Result Record fileSize and checksum are those of the whole    *)
(* artifact, uniqueBytes and mostCommonByte those of its first SampleSize  *)
(* bytes: every artifact with the same first SampleSize bytes has the same *)
(* two statistics, an artifact that differs anywhere has another checksum, *)
(* and uniqueBytes is at most min(fileSize, SampleSize).                   *)
(***************************************************************************)
first_bytes(s, n) == [k \in 1..(IF Len(s) < n THEN Len(s) ELSE n) |-> s[k]]

StatisticsOverSampleOnly ==
    \A r \in DOMAIN cons :
        cons[r].result # NoResult =>
            /\ cons[r].result.fileSize = Len(cons[r].model_data)
            /\ cons[r].result.uniqueBytes <= cons[r].result.fileSize
            /\ cons[r].result.uniqueBytes <= SampleSize
            /\ \A other \in Artifacts :
                 LET res == process_inference(other, cons[r].fileId, 0)
                 IN  /\ other # cons[r].model_data => res.checksum # cons[r].result.checksum
                     /\ first_bytes(other, SampleSize) = first_bytes(cons[r].model_data, SampleSize)
                          => /\ res.uniqueBytes = cons[r].result.uniqueBytes
                             /\ res.mostCommonByte = cons[r].result.mostCommonByte

\* a record was computed for an artifact that is longer than the sample and
\* holds a byte value after the sample that the sample does not hold
ByteValueOnlyAfterSample ==
    \E r \in DOMAIN cons :
        /\ cons[r].response.statusCode = 200
        /\ Len(cons[r].model_data) > SampleSize
        /\ cons[r].result.uniqueBytes < unique_bytes(cons[r].model_data)

(***************************************************************************)
(* C33: when an ingestion is answered 200 and a file is stored at the      *)
(* efsPath of the response, sizeBytes is the size of that file at that     *)
(* moment, on a first publish and on a replay.                             *)
(***************************************************************************)
SizeBytesIsStoredSize ==
    [][ \A i \in DOMAIN prod :
          ( /\ prod[i].pc # "done"
            /\ prod'[i].pc = "done"
            /\ prod'[i].response.statusCode = 200
            /\ prod'[i].response.efsPath \in DOMAIN files' ) =>
              prod'[i].response.sizeBytes = Len(files'[prod'[i].response.efsPath]) ]_vars

(***************************************************************************)
(* C34: distinct keys have distinct target paths: an ingestion answered    *)
(* 200 as a replay of the file at its target path has the key of the       *)
(* invocation that published that file.                                    *)
(***************************************************************************)
ReplayOnlyOfOwnKey ==
    \A i, j \in DOMAIN prod :
        ( /\ Replayed(i)
          /\ Renamed(j)
          /\ prod[i].response.efsPath = prod[j].response.efsPath ) =>
            prod[i].key = prod[j].key

(***************************************************************************)
(* C35: whatever the key, the path an ingestion writes to lies inside the  *)
(* models or the inputs directory of the mount root, and so does every     *)
(* file the namespace holds.  (No path of the model has a .. component, so *)
(* a path lies inside a directory iff it starts with the directory's name  *)
(* and a slash.)                                                           *)
(***************************************************************************)
inside_category(p) ==
    \/ startswith(p, path_join(EFS_MOUNT_PATH, "models") \o "/")
    \/ startswith(p, path_join(EFS_MOUNT_PATH, "inputs") \o "/")

WritesStayInsideCategories ==
    /\ \A p \in DOMAIN files : inside_category(p)
    /\ \A i \in DOMAIN prod :
         prod[i].pc # "idle" =>
             /\ inside_category(final_path(prod[i].key))
             /\ prod[i].pc = "write" => inside_category(temp_path(prod[i].key, prod[i].file_id))

(***************************************************************************)
(* C36: once every processing request has finished, in a run without       *)
(* fault, each result file holds the complete Result Record of one of the  *)
(* requests that wrote it: it is not empty and no mix of two records.      *)
(***************************************************************************)
ConcurrentResultsLeaveOneRecord ==
    (faults = 0 /\ \A r \in DOMAIN cons : cons[r].pc = "done") =>
        \A r \in DOMAIN cons :
            cons[r].response.statusCode = 200 =>
                /\ isfile(output_path(cons[r].fileId))
                /\ \E q \in DOMAIN cons :
                     /\ cons[q].response.statusCode = 200
                     /\ cons[q].fileId = cons[r].fileId
                     /\ files[output_path(cons[r].fileId)] = json_dump(cons[q].result)

(***************************************************************************)
(* C37: the temporary file of an invocation that is still writing is in    *)
(* the namespace (no other invocation consumed or removed it), and once    *)
(* every started ingestion has finished and none was answered with the     *)
(* 500 of a failed filesystem operation, no .tmp-* file is left, also      *)
(* after several invocations raced on one target path.                     *)
(***************************************************************************)
NoTempFileLeftBehind ==
    /\ \A i \in Producers :
           prod[i].pc = "write" => isfile(temp_path(prod[i].key, prod[i].file_id))
    /\ (\A i \in Producers :
           /\ prod[i].pc \in {"idle", "done"}
           /\ prod[i].response.statusCode # 500) =>
               \A p \in DOMAIN files : ~ is_temp(p)

\* two invocations with different keys raced on one target path, each made a
\* temporary file and renamed it, and no temporary file is left
RacingRenamesConsumedTheirTemps ==
    /\ \E i, j \in Producers :
           /\ i # j
           /\ Renamed(i) /\ Renamed(j)
           /\ prod[i].key # prod[j].key
           /\ final_path(prod[i].key) = final_path(prod[j].key)
    /\ \A i \in Producers : prod[i].pc = "done"
    /\ \A p \in DOMAIN files : ~ is_temp(p)

(***************************************************************************)
(* C38: every invocation of either handler ends with one response, whose   *)
(* status is 200, 400, 403, 404, 413 or 500.  An invocation that has not   *)
(* finished has no response, a finished one does nothing more and keeps    *)
(* its response, every step moves the invocation forward (no step is made  *)
(* twice and none is blocked), and a step in which a fetch, directory      *)
(* ensure, write, rename or read failed ends the invocation with an error  *)
(* response; a failed upload ends it with 200 and no s3Key.                *)
(***************************************************************************)
Statuses == {200, 400, 403, 404, 413, 500}

producer_rank(p) == CASE p.pc = "idle" -> 0 [] p.pc = "write" -> 1 + p.written
                      [] p.pc = "done" -> 2 + Len(p.file_data)

consumer_rank(c) == CASE c.pc = "idle" -> 0 [] c.pc = "read" -> 1 [] c.pc = "loaded" -> 2
                      [] c.pc = "result" -> 3 [] c.pc = "written" -> 4 [] c.pc = "done" -> 5

\* x is an invocation before a step and y the same invocation after it
one_response(x, y) ==
    /\ x.pc = "done" => y = x
    /\ y.pc = "done" => y.response.statusCode \in Statuses
    /\ y.pc # "done" => y.response = NoResponse

forward_only ==
    /\ \A i \in DOMAIN prod : prod'[i] # prod[i] => producer_rank(prod'[i]) > producer_rank(prod[i])
    /\ \A r \in DOMAIN cons : cons'[r] # cons[r] => consumer_rank(cons'[r]) > consumer_rank(cons[r])

\* an invocation that has started and not finished can make its next step
never_blocked ==
    /\ \A i \in DOMAIN prod :
           prod[i].pc = "write" => ENABLED (WriteTemp(i) \/ Rename(i) \/ WriteFails(i))
    /\ \A r \in DOMAIN cons :
           cons[r].pc \notin {"idle", "done"} =>
               ENABLED (\/ LoadModelRead(r) \/ LoadModelReadFails(r)
                        \/ WriteResultOpen(r) \/ WriteResultDump(r)
                        \/ WriteResultFails(r) \/ ArchiveAndRespond(r))

\* the step ended an invocation with an error response
ended_in_error ==
    \/ \E i \in DOMAIN prod :
          /\ prod[i].pc # "done" /\ prod'[i].pc = "done"
          /\ prod'[i].response.statusCode \in {403, 404, 500}
    \/ \E r \in DOMAIN cons :
          /\ cons[r].pc # "done" /\ cons'[r].pc = "done"
          /\ cons'[r].response.statusCode = 500

\* the step ended a processing request after its upload with 200 and no s3Key
ended_without_archive ==
    \E r \in DOMAIN cons :
        /\ cons[r].pc = "written" /\ cons'[r].pc = "done"
        /\ cons'[r].response.statusCode = 200
        /\ cons'[r].response.s3Key = ""

OneResponseNoEscapeNoRetry ==
    /\ []never_blocked
    /\ [][ /\ \A i \in DOMAIN prod : one_response(prod[i], prod'[i])
           /\ \A r \in DOMAIN cons : one_response(cons[r], cons'[r])
           /\ forward_only
           /\ faults' > faults => (ended_in_error \/ ended_without_archive) ]_vars

\* the statement with the upload among the failures that end in an error
\* response
EveryFailureIsAnErrorResponse ==
    [][ /\ \A i \in DOMAIN prod : one_response(prod[i], prod'[i])
        /\ \A r \in DOMAIN cons : one_response(cons[r], cons'[r])
        /\ forward_only
        /\ faults' > faults => ended_in_error ]_vars

\* every invocation of both handlers has finished: the ingestion published,
\* one processing request failed at its write and was answered 500, another
\* was answered 200
BothHandlersAnsweredAfterFailure ==
    /\ \A i \in DOMAIN prod : Renamed(i)
    /\ \A r \in DOMAIN cons : cons[r].pc = "done"
    /\ faults = 1
    /\ \E r, q \in DOMAIN cons :
          /\ cons[r].response.statusCode = 500
          /\ cons[r].result # NoResult
          /\ cons[q].response.statusCode = 200

(***************************************************************************)
(* C39: the record computed for an empty artifact has fileSize 0,          *)
(* uniqueBytes 0, mostCommonByte 0 and status success; for any other       *)
(* artifact mostCommonByte is a byte of the sample that no byte of the     *)
(* sample outnumbers, and of the bytes that occur as often it is the one   *)
(* that occurs first.                                                      *)
(***************************************************************************)
occurrences(s, b) == Cardinality({ k \in DOMAIN s : s[k] = b })

first_occurrence(s, b) == CHOOSE k \in DOMAIN s : s[k] = b /\ \A j \in 1..(k - 1) : s[j] # b

EmptyAndTiedArtifacts ==
    \A r \in DOMAIN cons :
        cons[r].result # NoResult =>
            LET data == cons[r].model_data
                head == first_bytes(data, SampleSize)
                m == cons[r].result.mostCommonByte
            IN  /\ cons[r].result.status = "success"
                /\ cons[r].result.fileSize = Len(data)
                /\ data = <<>> =>
                       /\ cons[r].result.uniqueBytes = 0
                       /\ m = 0
                /\ data # <<>> =>
                       /\ occurrences(head, m) >= 1
                       /\ \A k \in DOMAIN head :
                              \/ occurrences(head, head[k]) < occurrences(head, m)
                              \/ /\ occurrences(head, head[k]) = occurrences(head, m)
                                 /\ first_occurrence(head, m) <= k

\* a request was answered 200 for an artifact whose first two bytes tie and
\* whose first byte is the larger one
TieGoesToFirstByteMet ==
    \E r \in DOMAIN cons :
        /\ cons[r].pc = "done"
        /\ cons[r].response.statusCode = 200
        /\ Len(cons[r].model_data) >= 2
        /\ cons[r].model_data[1] = 2
        /\ cons[r].model_data[2] = 1
        /\ occurrences(first_bytes(cons[r].model_data, SampleSize), 1)
             = occurrences(first_bytes(cons[r].model_data, SampleSize), 2)
        /\ cons[r].result.mostCommonByte = 2

\* a request was answered 200 for the empty artifact
EmptyArtifactProcessed ==
    \E r \in DOMAIN cons :
        /\ cons[r].pc = "done"
        /\ cons[r].response.statusCode = 200
        /\ cons[r].model_data = <<>>
        /\ cons[r].result.mostCommonByte = 0

====
